---- MODULE Spec2Model ----
(***************************************************************************)
(* Canary release controller of be-lambda: the load balancer listener's    *)
(* weighted forwarding rule, the canary fleet's desired capacity, the      *)
(* rollout workflow executions, the emergency rollback handler, the        *)
(* queue-side traffic mirror and the dead-letter re-drive handler.         *)
(***************************************************************************)
EXTENDS Integers, Sequences, FiniteSets, TLC

(***************************************************************************)
(* Bounds of the model.                                                    *)
(***************************************************************************)
\* number of rollout workflow executions that may be started
MaxExecutions == 2
\* largest desired capacity the canary fleet may have before a rollback
MaxCapacity == 2
\* completed rollback invocations that are counted
MaxRollbacks == 2
\* alarms that fire while rollout workflows run
MaxAlarms == 1
\* longest batch whose shuffle is drawn from all its permutations
MaxShuffleLen == 4
\* a batch that needs several sub-batches in both partitions
BigBatch == 21
\* re-publications of one message that are counted
MaxRedrives == 4
\* longest requested rollout duration, in hours
MaxDuration == 100
\* rollout steps taken after the requested duration has passed
ExtraSteps == 2
\* largest current_percentage and increment passed to calculate_next_percentage
MaxStepInput == 110
\* instance refreshes of the production fleet that are kept
MaxRefreshes == 2
\* targets registered with the canary target group
MaxTargets == 2
MaxVersions == 2
MaxRaceBatch == 2

(***************************************************************************)
(* Names of the external resources (environment variables of the handlers).*)
(***************************************************************************)
LIVE_TG_ARN == "live-tg"
CANARY_TG_ARN == "canary-tg"
OTHER_TG_ARN == "other-tg"

\* an event field: <<>> when the caller left it out, <<v>> when it is v
Absent == <<>>
Given(v) == <<v>>

VARIABLES
  listener,           \* the listener's default action: its ForwardConfig
  canaryDesired,      \* DesiredCapacity of the canary auto scaling group
  execStatus,         \* status of each workflow execution, by start order
  rb_pc,              \* position of the emergency rollback handler
  rb_executions,      \* rollback: the RUNNING executions list_executions returned
  rbAttempted,        \* rollback steps whose API call was issued in this invocation
  rbFailed,           \* rollback steps whose API call raised in this invocation
  rbRunningAtInvoke,  \* executions RUNNING when the rollback was invoked
  rbStartedAtInvoke,  \* executions already started when the rollback was invoked
  rbLastEnd,          \* <<listener and capacity>> the last completed rollback left
  rbReturns,          \* number of completed rollback invocations
  messages,           \* mirror: the batch passed to send_prediction_messages
  mr_pc,              \* mirror: position of send_prediction_messages
  mr_weights,         \* mirror: (is_canary_active, live_weight, canary_weight)
  live_messages,      \* mirror: the partition for the live queue
  canary_messages,    \* mirror: the partition for the canary queue
  mr_i,               \* mirror: offset of the next sub-batch in its partition
  queueLive,          \* ids of the messages accepted by the live queue
  queueCanary,        \* ids of the messages accepted by the canary queue
  mrAttempted,        \* sub-batches passed to send_message_batch: <<phase, offset>>
  mrPartial,          \* sub-batches whose response reported Failed entries
  mrRaised,           \* the sub-batch whose send_message_batch raised, if any
  mrReadFailed,       \* whether reading the listener raised in this call
  queues,             \* re-drive: the messages held by each of the four queues
  canaryHealthy,      \* whether the canary target group has a healthy target
  rd_pc,              \* re-drive: position of the handler
  rd_moves,           \* re-drive: the move_messages calls still to make
  rd_messages,        \* re-drive: the messages the last receive_message returned
  rd_accepted,        \* re-drive: the entries the last send_message_batch accepted
  deadLettered,       \* messages a failed processing left in a dead-letter queue
  redrives            \* times each message was re-published after such a failure

canaryVars == <<listener, canaryDesired, execStatus, rb_pc, rb_executions,
                rbAttempted, rbFailed, rbRunningAtInvoke, rbStartedAtInvoke,
                rbLastEnd, rbReturns>>

mirrorVars == <<messages, mr_pc, mr_weights, live_messages, canary_messages,
                mr_i, queueLive, queueCanary, mrAttempted, mrPartial, mrRaised,
                mrReadFailed>>

redriveVars == <<queues, canaryHealthy, rd_pc, rd_moves, rd_messages,
                 rd_accepted, deadLettered, redrives>>

VARIABLES
  ta_call,            \* traffic_adjuster: <<percentage and outcome>> of the last call
  plan_call,          \* planner: <<handler, event and outcome>> of the call, if made
  current_percentage, \* rollout progress: the canary percentage
  current_hour,       \* rollout progress: the number of steps taken
  step_call,          \* calculate_next_percentage: <<event and result>> of the last call
  InstanceRefreshes,  \* instance refreshes of the production fleet, latest first
  TargetHealthDescriptions, \* health state of each target of the canary target group
  check_call          \* check_status: <<event and outcome>> of the last call

rolloutVars == <<plan_call, current_percentage, current_hour, step_call>>

probeVars == <<InstanceRefreshes, TargetHealthDescriptions, check_call>>

VARIABLES
  LaunchTemplateVersions, \* LaunchTemplateData of each version of the live template
  DefaultVersion,     \* number of the live template's default version
  pm_pc,              \* position of manage_infrastructure, PROMOTE_TO_PRODUCTION
  pm_image_tag,       \* promote: image_tag
  pm_user_data,       \* promote: new_base64_user_data
  pm_new_version,     \* promote: new_version_number
  pmAtInvoke          \* <<template and refreshes>> when the promotion was invoked

promoteVars == <<LaunchTemplateVersions, DefaultVersion, pm_pc, pm_image_tag,
                 pm_user_data, pm_new_version, pmAtInvoke>>

\* the state of the handlers that only the workflow's own steps touch
stepVars == <<rolloutVars, probeVars, promoteVars>>

\* the state outside the canary control plane
offPlane == <<mirrorVars, redriveVars, stepVars>>

vars == <<canaryVars, ta_call, mirrorVars, redriveVars, stepVars>>

(***************************************************************************)
(* The listener's forwarding rule.                                         *)
(***************************************************************************)
TargetGroup(arn, weight) == [TargetGroupArn |-> arn, Weight |-> weight]

\* a default action that forwards to the weighted target groups tgs
Forward(tgs) == [ForwardConfig |-> TRUE, TargetGroups |-> tgs]
\* a default action without ForwardConfig
NoForwardConfig == [ForwardConfig |-> FALSE, TargetGroups |-> <<>>]

\* weight of target group arn in a rule (0 when the rule does not name it)
RECURSIVE WeightOf(_, _)
WeightOf(tgs, arn) ==
  IF tgs = <<>> THEN 0
  ELSE IF Head(tgs).TargetGroupArn = arn THEN Head(tgs).Weight
  ELSE WeightOf(Tail(tgs), arn)

LiveWeight(rule) == WeightOf(rule.TargetGroups, LIVE_TG_ARN)
CanaryWeight(rule) == WeightOf(rule.TargetGroups, CANARY_TG_ARN)

\* traffic_adjuster: canary_percentage = event.get('canary_percentage', 0)
CanaryPercentageOf(event) == IF event = Absent THEN 0 ELSE event[1]

ValidPercentageUpTo101(p) == 0 <= p /\ p <= 101
\* traffic_adjuster: if not 0 <= canary_percentage <= 100: raise ValueError
ValidPercentage(p) == 0 <= p /\ p <= 100

ProdPercentageKeepsFull(p) == 100
\* traffic_adjuster: prod_percentage = 100 - canary_percentage
ProdPercentage(p) == 100 - p

\* traffic_adjuster: the TargetGroups written by modify_listener
AdjustedRule(p) ==
  Forward(<< TargetGroup(LIVE_TG_ARN, ProdPercentage(p)),
             TargetGroup(CANARY_TG_ARN, p) >>)

\* emergency_rollback: the TargetGroups written by modify_listener
RollbackRule ==
  Forward(<< TargetGroup(LIVE_TG_ARN, 100), TargetGroup(CANARY_TG_ARN, 0) >>)

RollbackCapacityKept == canaryDesired
\* emergency_rollback: DesiredCapacity=0
RollbackCapacity == 0

(***************************************************************************)
(* Inputs of the workflow's steps.                                         *)
(***************************************************************************)
\* canary_percentage values a workflow step may pass to traffic_adjuster
PercentInputs == {Absent} \cup {Given(p) : p \in {-1, 0, 50, 100, 101}}
\* launchTemplateVersion values a workflow step may pass to START_CANARY
LtVersionInputs == {Absent, Given(1)}

ExecIds == 1 .. MaxExecutions
Started == {e \in ExecIds : execStatus[e] # "NONE"}
Running == {e \in ExecIds : execStatus[e] = "RUNNING"}

\* a handler raised inside a workflow step: the orchestrator retries or
\* catches (the execution keeps running) or fails the execution
StepRaised(e) ==
  \/ execStatus' = execStatus
  \/ execStatus' = [execStatus EXCEPT ![e] = "FAILED"]

rollbackVars == <<rb_pc, rb_executions, rbAttempted, rbFailed,
                  rbRunningAtInvoke, rbStartedAtInvoke, rbLastEnd, rbReturns>>

(***************************************************************************)
(* The rollout workflow (Step Functions executions).                       *)
(***************************************************************************)
\* a new execution of the state machine is started
StartExecution ==
  \E e \in ExecIds :
    /\ execStatus[e] = "NONE"
    /\ \A d \in ExecIds : d < e => execStatus[d] # "NONE"
    /\ execStatus' = [execStatus EXCEPT ![e] = "RUNNING"]
    /\ UNCHANGED <<listener, canaryDesired, rollbackVars, ta_call, offPlane>>

\* the execution reaches its end state
FinishExecution ==
  \E e \in Running :
    /\ execStatus' = [execStatus EXCEPT ![e] = "SUCCEEDED"]
    /\ UNCHANGED <<listener, canaryDesired, rollbackVars, ta_call, offPlane>>

\* traffic_adjuster: one call, with the percentage it read from the event and
\* what it returned (Absent when it raised)
TrafficCall(canary_percentage, returned) ==
  <<[canary_percentage |-> canary_percentage, returned |-> returned]>>

\* traffic_adjuster.lambda_handler, called by a running execution
AdjustTraffic ==
  \E e \in Running, event \in PercentInputs :
    LET canary_percentage == CanaryPercentageOf(event) IN
    \/ /\ ~ValidPercentage(canary_percentage)          \* raise ValueError
       /\ StepRaised(e)
       /\ ta_call' = TrafficCall(canary_percentage, Absent)
       /\ UNCHANGED <<listener, canaryDesired, rollbackVars, offPlane>>
    \/ /\ ValidPercentage(canary_percentage)           \* modify_listener
       /\ listener' = AdjustedRule(canary_percentage)
       /\ ta_call' = TrafficCall(canary_percentage, Given(canary_percentage))
       /\ UNCHANGED <<canaryDesired, execStatus, rollbackVars, offPlane>>
    \/ /\ ValidPercentage(canary_percentage)           \* modify_listener raised
       /\ StepRaised(e)
       /\ ta_call' = TrafficCall(canary_percentage, Absent)
       /\ UNCHANGED <<listener, canaryDesired, rollbackVars, offPlane>>

\* manage_infrastructure.lambda_handler, action START_CANARY
StartCanary ==
  \E e \in Running, lt_version \in LtVersionInputs :
    \/ /\ lt_version = Absent                          \* raise ValueError
       /\ StepRaised(e)
       /\ UNCHANGED <<listener, canaryDesired, rollbackVars, ta_call, offPlane>>
    \/ /\ lt_version # Absent                          \* update_auto_scaling_group
       /\ canaryDesired' = 1
       /\ UNCHANGED <<listener, execStatus, rollbackVars, ta_call, offPlane>>
    \/ /\ lt_version # Absent                          \* the call raised
       /\ StepRaised(e)
       /\ UNCHANGED <<listener, canaryDesired, rollbackVars, ta_call, offPlane>>

\* manage_infrastructure.lambda_handler, action CLEANUP_CANARY
CleanupCanary ==
  \E e \in Running :
    \/ /\ canaryDesired' = 0
       /\ UNCHANGED <<listener, execStatus, rollbackVars, ta_call, offPlane>>
    \/ /\ StepRaised(e)
       /\ UNCHANGED <<listener, canaryDesired, rollbackVars, ta_call, offPlane>>

(***************************************************************************)
(* emergency_rollback.lambda_handler, one action per API call.             *)
(***************************************************************************)
RollbackOrderScaleFirst == <<"scale", "revert", "list">>
\* the order of the handler's steps: 1. modify_listener,
\* 2. update_auto_scaling_group, 3. list_executions and stop_execution
RollbackOrder == <<"revert", "scale", "list">>
\* the step the handler goes to once step has returned
RollbackStepAfter(step) ==
  RollbackOrder[1 + CHOOSE i \in 1 .. Len(RollbackOrder) - 1 :
                        RollbackOrder[i] = step]

\* the alarm invokes the handler
RollbackInvoke ==
  /\ rb_pc \in {"idle", "returned", "raised"}
  /\ rbReturns < MaxRollbacks
  /\ rb_pc' = RollbackOrder[1]
  /\ rb_executions' = <<>>
  /\ rbAttempted' = {}
  /\ rbFailed' = {}
  /\ rbRunningAtInvoke' = Running
  /\ rbStartedAtInvoke' = Started
  /\ UNCHANGED <<listener, canaryDesired, execStatus, rbLastEnd, rbReturns,
                 ta_call, offPlane>>

\* 1. elbv2.modify_listener(live 100, canary 0)
RollbackRevertTraffic ==
  /\ rb_pc = "revert"
  /\ rbAttempted' = rbAttempted \cup {"revert"}
  /\ \/ /\ listener' = RollbackRule
        /\ rb_pc' = RollbackStepAfter("revert")
        /\ UNCHANGED rbFailed
     \/ /\ rb_pc' = "raised"                            \* the call raised
        /\ rbFailed' = rbFailed \cup {"revert"}
        /\ UNCHANGED listener
  /\ UNCHANGED <<canaryDesired, execStatus, rb_executions, rbRunningAtInvoke,
                 rbStartedAtInvoke, rbLastEnd, rbReturns, ta_call, offPlane>>

\* 2. autoscaling.update_auto_scaling_group(DesiredCapacity=0)
RollbackScaleDown ==
  /\ rb_pc = "scale"
  /\ rbAttempted' = rbAttempted \cup {"scale"}
  /\ \/ /\ canaryDesired' = RollbackCapacity
        /\ rb_pc' = RollbackStepAfter("scale")
        /\ UNCHANGED rbFailed
     \/ /\ rb_pc' = "raised"                            \* the call raised
        /\ rbFailed' = rbFailed \cup {"scale"}
        /\ UNCHANGED canaryDesired
  /\ UNCHANGED <<listener, execStatus, rb_executions, rbRunningAtInvoke,
                 rbStartedAtInvoke, rbLastEnd, rbReturns, ta_call, offPlane>>

\* the handler returns "Emergency rollback and cleanup completed."
RollbackReturned ==
  /\ rb_pc' = "returned"
  /\ rbLastEnd' = <<[listener |-> listener', canaryDesired |-> canaryDesired']>>
  /\ rbReturns' = rbReturns + 1

\* list_executions(statusFilter='RUNNING'): most recently started first
RECURSIVE ListRunning(_)
ListRunning(e) ==
  IF e = 0 THEN <<>>
  ELSE IF execStatus[e] = "RUNNING" THEN <<e>> \o ListRunning(e - 1)
  ELSE ListRunning(e - 1)

\* 3. sfn.list_executions; if executions['executions'] is empty, return
RollbackListExecutions ==
  /\ rb_pc = "list"
  /\ UNCHANGED <<listener, canaryDesired, execStatus, rbRunningAtInvoke,
                 rbStartedAtInvoke, ta_call, offPlane>>
  /\ rbAttempted' = rbAttempted \cup {"stop"}
  /\ \/ /\ ListRunning(MaxExecutions) # <<>>
        /\ rb_executions' = ListRunning(MaxExecutions)
        /\ rb_pc' = "stop"
        /\ UNCHANGED <<rbFailed, rbLastEnd, rbReturns>>
     \/ /\ ListRunning(MaxExecutions) = <<>>
        /\ rb_executions' = <<>>
        /\ UNCHANGED <<rbFailed>>
        /\ RollbackReturned
     \/ /\ rb_pc' = "raised"                            \* the call raised
        /\ rbFailed' = rbFailed \cup {"stop"}
        /\ UNCHANGED <<rb_executions, rbLastEnd, rbReturns>>

\* execution_arn = executions['executions'][0]['executionArn']
StopTargets(executions) == {executions[1]}

\* sfn.stop_execution(executionArn=execution_arn, ...), then return
RollbackStopExecution ==
  /\ rb_pc = "stop"
  /\ UNCHANGED <<listener, canaryDesired, rb_executions, rbAttempted,
                 rbRunningAtInvoke, rbStartedAtInvoke, ta_call, offPlane>>
  /\ \/ /\ execStatus' = [e \in ExecIds |->
                IF e \in StopTargets(rb_executions) /\ execStatus[e] = "RUNNING"
                THEN "ABORTED" ELSE execStatus[e]]
        /\ UNCHANGED rbFailed
        /\ RollbackReturned
     \/ /\ rb_pc' = "raised"                            \* the call raised
        /\ rbFailed' = rbFailed \cup {"stop"}
        /\ UNCHANGED <<execStatus, rbLastEnd, rbReturns>>

(***************************************************************************)
(* sqs_message_distributor_with_canary: the queue-side traffic mirror.     *)
(***************************************************************************)
\* SQS SendMessageBatch takes at most 10 entries: range(0, len(messages), 10)
SendBatchLimit == 10

Min(a, b) == IF a <= b THEN a ELSE b

\* the sequence s[from .. to] of Python's s[from-1:to]
Slice(s, from, to) ==
  IF from > Min(to, Len(s)) THEN <<>> ELSE SubSeq(s, from, Min(to, Len(s)))

\* any(tg['TargetGroupArn'] == CANARY_TARGET_GROUP_ARN for tg in target_groups)
AnyTargetIsCanary(tgs) ==
  \E i \in 1 .. Len(tgs) : tgs[i].TargetGroupArn = CANARY_TG_ARN

\* the weight the loop over target_groups leaves in a variable: that of the
\* last target group with this arn, 0 when there is none
RECURSIVE LastWeightOf(_, _)
LastWeightOf(tgs, arn) ==
  IF tgs = <<>> THEN 0
  ELSE IF tgs[Len(tgs)].TargetGroupArn = arn THEN tgs[Len(tgs)].Weight
  ELSE LastWeightOf(SubSeq(tgs, 1, Len(tgs) - 1), arn)

\* what get_deployment_status_and_weights returns when the canary is not active
WeightsDefault == [active |-> FALSE, live |-> 100, canary |-> 0]

WeightsOnErrorToCanary == [active |-> TRUE, live |-> 0, canary |-> 100]
\* except Exception as e: ... return False, 100, 0
WeightsOnError == [active |-> FALSE, live |-> 100, canary |-> 0]

DeploymentStatusAndWeightsSwapped(rule) ==
  IF ~rule.ForwardConfig THEN WeightsDefault
  ELSE IF ~(Len(rule.TargetGroups) > 1 /\ AnyTargetIsCanary(rule.TargetGroups))
       THEN WeightsDefault
  ELSE [active |-> TRUE,
        live |-> LastWeightOf(rule.TargetGroups, CANARY_TG_ARN),
        canary |-> LastWeightOf(rule.TargetGroups, LIVE_TG_ARN)]
\* get_deployment_status_and_weights on the rule it read
DeploymentStatusAndWeights(rule) ==
  IF ~rule.ForwardConfig THEN WeightsDefault
  ELSE IF ~(Len(rule.TargetGroups) > 1 /\ AnyTargetIsCanary(rule.TargetGroups))
       THEN WeightsDefault
  ELSE [active |-> TRUE,
        live |-> LastWeightOf(rule.TargetGroups, LIVE_TG_ARN),
        canary |-> LastWeightOf(rule.TargetGroups, CANARY_TG_ARN)]

\* num / den rounded to the nearest integer, a tie to the next integer up
RoundHalfUp(num, den) == (2 * num + den) \div (2 * den)

RoundTruncated(num, den) == num \div den

\* Python 3 round(num / den): to the nearest integer, a tie to the even one
RoundHalfEven(num, den) ==
  LET q == num \div den
      r == num % den
  IN IF 2 * r > den THEN q + 1
     ELSE IF 2 * r < den THEN q
     ELSE IF q % 2 = 0 THEN q ELSE q + 1

NumCanaryHalfUp(total_messages, canary_weight, total_weight) ==
  RoundHalfUp(total_messages * canary_weight, total_weight)
NumCanaryTruncated(total_messages, canary_weight, total_weight) ==
  RoundTruncated(total_messages * canary_weight, total_weight)
\* num_canary = round(total_messages * (canary_weight / total_weight)); on the
\* batch sizes and weights of this model the double product rounds as the
\* exact quotient does
NumCanary(total_messages, canary_weight, total_weight) ==
  RoundHalfEven(total_messages * canary_weight, total_weight)

\* all the orders of a sequence of n elements
AllOrders(n) ==
  {p \in [1 .. n -> 1 .. n] : \A i, j \in 1 .. n : p[i] = p[j] => i = j}

\* rotations of 1..n and their reversals
Rotations(n) ==
  {[i \in 1 .. n |-> ((i + k - 1) % n) + 1] : k \in 0 .. n - 1}
  \cup {[i \in 1 .. n |-> ((n - i + k) % n) + 1] : k \in 0 .. n - 1}

\* random.shuffle(messages): any order of a batch of at most MaxShuffleLen
\* messages; of a longer batch, its rotations and their reversals
Shuffles(msgs) ==
  LET n == Len(msgs)
      orders == IF n <= MaxShuffleLen THEN AllOrders(n) ELSE Rotations(n)
  IN {[i \in 1 .. n |-> msgs[p[i]]] : p \in orders}

CanaryPartitionOffByOne(shuffled, num_canary) == Slice(shuffled, 1, num_canary + 1)
\* canary_messages = messages[:num_canary]
CanaryPartition(shuffled, num_canary) == Slice(shuffled, 1, num_canary)

\* live_messages = messages[num_canary:]
LivePartition(shuffled, num_canary) == Slice(shuffled, num_canary + 1, Len(shuffled))

Ids(msgs) == {msgs[i] : i \in 1 .. Len(msgs)}

canaryPlane == <<listener, canaryDesired, execStatus, rollbackVars, ta_call,
                 stepVars>>

\* send_prediction_messages up to its first send: the empty batch returns,
\* otherwise the listener is read and the batch is split
MirrorDistribute ==
  /\ mr_pc = "call"
  /\ UNCHANGED <<canaryPlane, redriveVars, queueLive, queueCanary, mrAttempted,
                 mrPartial, mrRaised, mr_i>>
  /\ \/ /\ messages = <<>>                              \* No messages to send.
        /\ mr_pc' = "returned"
        /\ UNCHANGED <<messages, mr_weights, live_messages, canary_messages,
                       mrReadFailed>>
     \/ /\ messages # <<>>
        /\ mrReadFailed' \in BOOLEAN
        /\ LET w == IF mrReadFailed' THEN WeightsOnError
                    ELSE DeploymentStatusAndWeights(listener)
           IN
             /\ mr_weights' = w
             /\ IF ~w.active \/ w.live + w.canary = 0
                THEN /\ live_messages' = messages
                     /\ canary_messages' = <<>>
                     /\ UNCHANGED messages
                ELSE \E shuffled \in Shuffles(messages) :
                       LET num_canary ==
                             NumCanary(Len(messages), w.canary, w.live + w.canary)
                       IN /\ messages' = shuffled
                          /\ canary_messages' = CanaryPartition(shuffled, num_canary)
                          /\ live_messages' = LivePartition(shuffled, num_canary)
        /\ mr_pc' = "send_live"

\* where _send_batch_to_sqs and its caller go after the sub-batch at offset i
AfterSubBatchStopsPartition(pc, i, msgs, canary) ==
  IF pc = "send_live" THEN [pc |-> "send_canary", i |-> 0]
  ELSE [pc |-> "returned", i |-> 0]
AfterSubBatch(pc, i, msgs, canary) ==
  IF i + SendBatchLimit < Len(msgs) THEN [pc |-> pc, i |-> i + SendBatchLimit]
  ELSE IF pc = "send_live" THEN [pc |-> "send_canary", i |-> 0]
  ELSE [pc |-> "returned", i |-> 0]

\* the ways a response can report Failed entries for a sub-batch: its first
\* entry alone, or all its entries
FailedEntries(chunk) == {{chunk[1]}, Ids(chunk)}

\* one pass of the loop of _send_batch_to_sqs(queue_url, messages)
MirrorSendSubBatch ==
  /\ mr_pc \in {"send_live", "send_canary"}
  /\ UNCHANGED <<canaryPlane, redriveVars, messages, mr_weights, live_messages,
                 canary_messages, mrReadFailed>>
  /\ LET msgs == IF mr_pc = "send_live" THEN live_messages ELSE canary_messages
         chunk == Slice(msgs, mr_i + 1, mr_i + SendBatchLimit)
         after == AfterSubBatch(mr_pc, mr_i, msgs, canary_messages)
         accepted(ids) ==
           IF mr_pc = "send_live"
           THEN /\ queueLive' = queueLive \cup ids
                /\ UNCHANGED queueCanary
           ELSE /\ queueCanary' = queueCanary \cup ids
                /\ UNCHANGED queueLive
     IN \/ /\ msgs = <<>>                               \* if not messages: return
           /\ mr_pc' = after.pc
           /\ mr_i' = after.i
           /\ UNCHANGED <<queueLive, queueCanary, mrAttempted, mrPartial, mrRaised>>
        \/ /\ msgs # <<>>                               \* every entry Successful
           /\ mrAttempted' = mrAttempted \cup {<<mr_pc, mr_i>>}
           /\ accepted(Ids(chunk))
           /\ mr_pc' = after.pc
           /\ mr_i' = after.i
           /\ UNCHANGED <<mrPartial, mrRaised>>
        \/ /\ msgs # <<>>                               \* some entries Failed: logged
           /\ mrAttempted' = mrAttempted \cup {<<mr_pc, mr_i>>}
           /\ mrPartial' = mrPartial \cup {<<mr_pc, mr_i>>}
           /\ \E failed \in FailedEntries(chunk) : accepted(Ids(chunk) \ failed)
           /\ mr_pc' = after.pc
           /\ mr_i' = after.i
           /\ UNCHANGED mrRaised
        \/ /\ msgs # <<>>                               \* the call raised: raise e
           /\ mrAttempted' = mrAttempted \cup {<<mr_pc, mr_i>>}
           /\ mrRaised' = mrRaised \cup {<<mr_pc, mr_i>>}
           /\ mr_pc' = "raised"
           /\ UNCHANGED <<queueLive, queueCanary, mr_i, mrPartial>>

(***************************************************************************)
(* prediction/re-drive.py: the dead-letter re-drive handler, with the      *)
(* consumers of the two main queues.                                       *)
(***************************************************************************)
LIVE_MAIN_QUEUE_URL == "live-main"
LIVE_DLQ_URL == "live-dlq"
CANARY_MAIN_QUEUE_URL == "canary-main"
CANARY_DLQ_URL == "canary-dlq"

QueueUrls ==
  {LIVE_MAIN_QUEUE_URL, LIVE_DLQ_URL, CANARY_MAIN_QUEUE_URL, CANARY_DLQ_URL}
DeadLetterQueues == {LIVE_DLQ_URL, CANARY_DLQ_URL}

\* the messages of the model, named by their bodies
MsgIds == {"m1", "m2"}

\* the retry cap the specification gives the re-drive (maxRetries)
MaxRetries == 3

\* receive_message(MaxNumberOfMessages=10)
ReceiveLimit == 10

\* the dead-letter queue of a main queue (its redrive policy)
DeadLetterQueueOf(queue_url) ==
  IF queue_url = LIVE_MAIN_QUEUE_URL THEN LIVE_DLQ_URL ELSE CANARY_DLQ_URL

Move(source_queue_url, dest_queue_url) ==
  [source |-> source_queue_url, dest |-> dest_queue_url]

\* lambda_handler: the move_messages calls of the standard mode
StandardModeMoves ==
  << Move(LIVE_DLQ_URL, LIVE_MAIN_QUEUE_URL),
     Move(CANARY_DLQ_URL, LIVE_MAIN_QUEUE_URL),
     Move(CANARY_MAIN_QUEUE_URL, LIVE_MAIN_QUEUE_URL) >>

CanaryModeMovesLiveToCanary ==
  << Move(LIVE_DLQ_URL, CANARY_MAIN_QUEUE_URL),
     Move(CANARY_DLQ_URL, CANARY_MAIN_QUEUE_URL) >>
\* lambda_handler: the move_messages calls of the canary mode
CanaryModeMoves ==
  << Move(LIVE_DLQ_URL, LIVE_MAIN_QUEUE_URL),
     Move(CANARY_DLQ_URL, CANARY_MAIN_QUEUE_URL) >>

\* State of a target of the canary target group
TargetHealthStates == {"initial", "healthy", "unhealthy"}
TargetHealthDescription(state) == [TargetHealth |-> [State |-> state]]

notRedrive == <<canaryVars, ta_call, promoteVars, mirrorVars, rolloutVars,
                InstanceRefreshes, TargetHealthDescriptions, check_call>>
\* what the re-drive handler does not touch, but for the canary targets
notRedriveNorTargets == <<canaryVars, ta_call, promoteVars, mirrorVars,
                          rolloutVars, InstanceRefreshes, check_call>>

\* the canary target group when is_canary_active sees a healthy target, or not
TargetsWhen(healthy) ==
  <<TargetHealthDescription(IF healthy THEN "healthy" ELSE "unhealthy")>>

\* the timer invokes lambda_handler: is_canary_active() picks the mode; an
\* error of describe_target_health counts as inactive
RedriveInvoke ==
  /\ rd_pc \in {"idle", "returned", "raised"}
  /\ \E active \in {canaryHealthy, FALSE} :
       rd_moves' = IF active THEN CanaryModeMoves ELSE StandardModeMoves
  /\ rd_pc' = "receive"
  /\ rd_messages' = {}
  /\ rd_accepted' = {}
  /\ UNCHANGED <<queues, canaryHealthy, deadLettered, redrives, notRedrive>>

\* move_messages: sqs.receive_message on the source queue; no message ends
\* the loop, move_messages returns (its locals are gone) and the next
\* move_messages call starts
RedriveReceive ==
  /\ rd_pc = "receive"
  /\ LET source == Head(rd_moves).source IN
     \/ /\ queues[source] = {}                          \* if not messages: break
        /\ rd_moves' = Tail(rd_moves)
        /\ rd_pc' = IF Tail(rd_moves) = <<>> THEN "returned" ELSE "receive"
        /\ rd_messages' = {}
     \/ /\ \E received \in SUBSET queues[source] :
             /\ received # {}
             /\ Cardinality(received) <= ReceiveLimit
             /\ rd_messages' = received
        /\ rd_pc' = "send"
        /\ UNCHANGED rd_moves
     \/ /\ rd_pc' = "raised"                            \* the call raised
        /\ UNCHANGED <<rd_moves, rd_messages>>
  /\ UNCHANGED <<queues, canaryHealthy, rd_accepted, deadLettered, redrives,
                 notRedrive>>

\* the count of a message after the destination queue accepted a batch: one
\* more for a message that a failed processing had left in the source
\* dead-letter queue
Redriven(m, accepted, source) ==
  IF m \in accepted \cap deadLettered /\ source \in DeadLetterQueues
  THEN redrives[m] + 1 ELSE redrives[m]

\* move_messages: entries = [{'Id': msg['MessageId'], 'MessageBody': msg['Body']}]
RedriveEntry(msg) == [Id |-> msg, MessageBody |-> msg]
RedriveEntries(msgs) == {RedriveEntry(msg) : msg \in msgs}

\* move_messages: sqs.send_message_batch to the destination queue; the
\* response is not read, so entries it reports Failed go unnoticed
RedriveSend ==
  /\ rd_pc = "send"
  /\ \A m \in rd_messages : redrives[m] < MaxRedrives
  /\ LET source == Head(rd_moves).source
         dest == Head(rd_moves).dest
     IN \/ /\ \E accepted \in SUBSET {e.Id : e \in RedriveEntries(rd_messages)} :
                /\ queues' = [queues EXCEPT ![dest] = @ \cup accepted]
                /\ rd_accepted' = accepted
                /\ redrives' = [m \in MsgIds |-> Redriven(m, accepted, source)]
                /\ deadLettered' =
                     IF source \in DeadLetterQueues
                     THEN deadLettered \ accepted ELSE deadLettered
           /\ rd_pc' = "delete"
        \/ /\ rd_pc' = "raised"                         \* the call raised
           /\ UNCHANGED <<queues, rd_accepted, deadLettered, redrives>>
  /\ UNCHANGED <<canaryHealthy, rd_moves, rd_messages, notRedrive>>

\* move_messages: sqs.delete_message_batch on the source queue; the response
\* is not read; the loop then receives again
RedriveDelete ==
  /\ rd_pc = "delete"
  /\ LET source == Head(rd_moves).source
     IN \/ /\ \E deleted \in SUBSET rd_messages :
                queues' = [queues EXCEPT ![source] = @ \ deleted]
           /\ rd_pc' = "receive"
        \/ /\ rd_pc' = "raised"                         \* the call raised
           /\ UNCHANGED queues
  /\ rd_accepted' = {}
  /\ UNCHANGED <<canaryHealthy, rd_moves, rd_messages, deadLettered, redrives,
                 notRedrive>>

\* prediction_listener: the consumer of a main queue processes a message
ProcessingSucceeds ==
  \E q \in {LIVE_MAIN_QUEUE_URL, CANARY_MAIN_QUEUE_URL}, m \in MsgIds :
    /\ m \in queues[q]
    /\ queues' = [queues EXCEPT ![q] = @ \ {m}]
    /\ UNCHANGED <<canaryHealthy, rd_pc, rd_moves, rd_messages, rd_accepted,
                   deadLettered, redrives, notRedrive>>

\* prediction_listener raises on every delivery of a message: the queue's
\* redrive policy moves the message to the dead-letter queue
ProcessingFails ==
  \E q \in {LIVE_MAIN_QUEUE_URL, CANARY_MAIN_QUEUE_URL}, m \in MsgIds :
    /\ m \in queues[q]
    /\ queues' = [queues EXCEPT ![q] = @ \ {m},
                                ![DeadLetterQueueOf(q)] = @ \cup {m}]
    /\ deadLettered' = deadLettered \cup {m}
    /\ UNCHANGED <<canaryHealthy, rd_pc, rd_moves, rd_messages, rd_accepted,
                   redrives, notRedrive>>

\* the canary target group gains or loses its healthy targets
CanaryHealthChanges ==
  /\ canaryHealthy' = ~canaryHealthy
  /\ TargetHealthDescriptions' = TargetsWhen(canaryHealthy')
  /\ UNCHANGED <<queues, rd_pc, rd_moves, rd_messages, rd_accepted,
                 deadLettered, redrives, notRedriveNorTargets>>

(***************************************************************************)
(* calculate_deployment_plan, manage_deployment_plan and                   *)
(* calculate_next_percentage: the rollout plan and its progress.           *)
(***************************************************************************)
\* calculate_deployment_plan: DEFAULT_DURATION_HOURS
DEFAULT_DURATION_HOURS == 9
\* manage_deployment_plan: DEFAULT_DURATION
DEFAULT_DURATION == 9

\* math.ceil(a / b) for integers a and b > 0
Ceil(a, b) == (a + b - 1) \div b

HourlyIncrementFloor(total_duration) == 100 \div total_duration
HourlyIncrementNearest(total_duration) ==
  (100 + total_duration \div 2) \div total_duration
\* hourly_increment = math.ceil(100 / total_duration)
HourlyIncrement(total_duration) == Ceil(100, total_duration)

\* event.get(key, default) of an event field
GetOr(field, default) == IF field = Absent THEN default ELSE field[1]

\* calculate_deployment_plan.lambda_handler: Absent when it raises ValueError,
\* else the plan it returns
CalculateDeploymentPlan(event) ==
  LET total_duration == GetOr(event.total_duration_hours, DEFAULT_DURATION_HOURS)
  IN IF total_duration <= 0
     THEN Absent
     ELSE Given([hourly_increment |-> HourlyIncrement(total_duration),
                 canary_percentage |-> 0,
                 total_duration_hours |-> total_duration,
                 current_hour |-> 0,
                 deploymentId |-> event.deploymentId])

\* manage_deployment_plan.lambda_handler: the plan it returns
ManageDeploymentPlan(event) ==
  LET duration == GetOr(event.total_duration_hours, DEFAULT_DURATION)
      increment == IF duration > 0 THEN HourlyIncrement(duration) ELSE 100
  IN Given([plan |-> [hourly_increment |-> increment,
                      total_duration |-> duration],
            progress |-> [current_percentage |-> 0, current_hour |-> 0],
            deploymentId |-> GetOr(event.detail, Absent),
            imageTag |-> event.imageTag])

PlanHandlers == {"calculate_deployment_plan", "manage_deployment_plan"}

\* requested durations, from below zero up to MaxDuration hours
DurationInputs == {Absent} \cup {Given(d) : d \in -1 .. MaxDuration}
DeploymentIdInputs == {Absent, Given("deployment-1")}

\* the events that start a rollout: deploymentId at the top level, or inside
\* the detail of the event
PlanEvents ==
  [total_duration_hours : DurationInputs,
   deploymentId : DeploymentIdInputs,
   detail : {Absent, Given(Given("deployment-1"))},
   imageTag : {Absent}]

PlanOutcome(handler, event) ==
  IF handler = "calculate_deployment_plan"
  THEN CalculateDeploymentPlan(event) ELSE ManageDeploymentPlan(event)

\* the fields of a returned plan the workflow threads to the next steps
PlanDuration(call) ==
  IF call.handler = "calculate_deployment_plan"
  THEN call.outcome[1].total_duration_hours
  ELSE call.outcome[1].plan.total_duration
PlanIncrement(call) ==
  IF call.handler = "calculate_deployment_plan"
  THEN call.outcome[1].hourly_increment
  ELSE call.outcome[1].plan.hourly_increment
PlanStartPercentage(call) ==
  IF call.handler = "calculate_deployment_plan"
  THEN call.outcome[1].canary_percentage
  ELSE call.outcome[1].progress.current_percentage
PlanStartHour(call) ==
  IF call.handler = "calculate_deployment_plan"
  THEN call.outcome[1].current_hour
  ELSE call.outcome[1].progress.current_hour

\* a rollout is planned: one of the two planner handlers is called once
PlanRollout ==
  /\ plan_call = <<>>
  /\ \E handler \in PlanHandlers, event \in PlanEvents :
       LET call == [handler |-> handler, event |-> event,
                    outcome |-> PlanOutcome(handler, event)]
       IN /\ plan_call' = <<call>>
          /\ IF call.outcome = Absent
             THEN UNCHANGED <<current_percentage, current_hour>>
             ELSE /\ current_percentage' = PlanStartPercentage(call)
                  /\ current_hour' = PlanStartHour(call)
  /\ UNCHANGED <<step_call, probeVars, canaryVars, ta_call, promoteVars, mirrorVars,
                 redriveVars>>

NextPercentageWraps(current_percentage_, increment) ==
  (current_percentage_ + increment) % 100
NextPercentageUncapped(current_percentage_, increment) ==
  current_percentage_ + increment
\* calculate_next_percentage: next_percentage = current_percentage + increment,
\* set to 100 when above 100
NextPercentage(current_percentage_, increment) ==
  IF current_percentage_ + increment > 100
  THEN 100 ELSE current_percentage_ + increment

\* calculate_next_percentage.lambda_handler: the call and what it returns
CalculateNextPercentage(event) ==
  [event |-> event,
   next_percentage |-> NextPercentage(GetOr(event.current_percentage, 0),
                                      GetOr(event.increment, 0))]

\* the steps a rollout of total_duration hours may take
StepLimit(total_duration) ==
  (IF total_duration > 0 THEN total_duration ELSE 0) + ExtraSteps

\* one time step of the rollout: the workflow passes the progress and the
\* plan's increment to calculate_next_percentage and keeps the result
StepRollout ==
  /\ plan_call # <<>>
  /\ plan_call[1].outcome # Absent
  /\ current_hour < StepLimit(PlanDuration(plan_call[1]))
  /\ LET call == CalculateNextPercentage(
                   [current_percentage |-> Given(current_percentage),
                    increment |-> Given(PlanIncrement(plan_call[1]))])
     IN /\ step_call' = <<call>>
        /\ current_percentage' = call.next_percentage
  /\ current_hour' = current_hour + 1
  /\ UNCHANGED <<plan_call, probeVars, canaryVars, ta_call, promoteVars, mirrorVars,
                 redriveVars>>

\* values of current_percentage and increment a caller may pass
StepInputs == {Absent} \cup {Given(v) : v \in -1 .. MaxStepInput}
StepEvents == [current_percentage : StepInputs, increment : StepInputs]

\* calculate_next_percentage.lambda_handler called once with any event
StepPercentage ==
  /\ step_call = <<>>
  /\ \E event \in StepEvents : step_call' = <<CalculateNextPercentage(event)>>
  /\ UNCHANGED <<plan_call, current_percentage, current_hour, probeVars,
                 canaryVars, ta_call, promoteVars, mirrorVars, redriveVars>>

(***************************************************************************)
(* check_status.lambda_handler: the health probe.                          *)
(***************************************************************************)
\* Status of an instance refresh, as the provider reports it
RefreshStatuses ==
  {"Pending", "InProgress", "Successful", "Failed", "Cancelling", "Cancelled",
   "RollbackInProgress", "RollbackFailed", "RollbackSuccessful", "Baking"}
\* statuses of a refresh that has ended
EndedRefreshStatuses ==
  {"Successful", "Failed", "Cancelled", "RollbackFailed", "RollbackSuccessful"}
InstanceRefresh(status) == [Status |-> status]

\* for target in response['TargetHealthDescriptions']:
\*   if target['TargetHealth']['State'] == 'healthy'
AnyHealthy(descriptions) ==
  \E i \in 1 .. Len(descriptions) :
    descriptions[i].TargetHealth.State = "healthy"

\* check_type values a workflow step may pass
CheckTypes ==
  {Absent, Given("CANARY_HEALTH"), Given("INSTANCE_REFRESH"), Given("OTHER")}

CheckCanaryHealthAllTargets(response) ==
  IF \A i \in 1 .. Len(response) : response[i].TargetHealth.State = "healthy"
  THEN Given("SUCCEEDED") ELSE Given("IN_PROGRESS")
\* check_status, CANARY_HEALTH, on the response of describe_target_health
CheckCanaryHealth(response) ==
  IF AnyHealthy(response) THEN Given("SUCCEEDED") ELSE Given("IN_PROGRESS")

CheckInstanceRefreshCancellingGoesOn(response) ==
  IF response = <<>> THEN Given("IN_PROGRESS")
  ELSE LET status == response[1].Status
       IN IF status = "Successful" THEN Given("SUCCEEDED")
          ELSE IF status \in {"Failed", "Cancelled"} THEN Absent
          ELSE Given("IN_PROGRESS")
\* check_status, INSTANCE_REFRESH, on the response of
\* describe_instance_refreshes: the status it returns, Absent when it raises
CheckInstanceRefresh(response) ==
  IF response = <<>> THEN Given("IN_PROGRESS")
  ELSE LET status == response[1].Status
       IN IF status = "Successful" THEN Given("SUCCEEDED")
          ELSE IF status \in {"Failed", "Cancelling", "Cancelled"} THEN Absent
          ELSE Given("IN_PROGRESS")

DescribeFailedGoesOn == Given("IN_PROGRESS")
\* except Exception as e: raise e -- the outcome of check_status when the
\* describe call of either mode raised
DescribeFailed == Absent

\* one call of check_status: the check_type, whether the describe call
\* returned, its response, and the returned status (Absent when it raised)
CheckCall(check_type, described, response, outcome) ==
  <<[check_type |-> check_type, described |-> described,
     response |-> response, outcome |-> outcome]>>

\* check_status.lambda_handler
CheckStatus ==
  /\ \E check_type \in CheckTypes :
       \/ /\ check_type = Given("CANARY_HEALTH")
          /\ \/ check_call' = CheckCall(check_type, TRUE, TargetHealthDescriptions,
                       CheckCanaryHealth(TargetHealthDescriptions))
             \/ check_call' = CheckCall(check_type, FALSE, <<>>, DescribeFailed)
       \/ /\ check_type = Given("INSTANCE_REFRESH")
          /\ \/ check_call' = CheckCall(check_type, TRUE, InstanceRefreshes,
                       CheckInstanceRefresh(InstanceRefreshes))
             \/ check_call' = CheckCall(check_type, FALSE, <<>>, DescribeFailed)
       \/ /\ check_type \notin {Given("CANARY_HEALTH"), Given("INSTANCE_REFRESH")}
          /\ check_call' = CheckCall(check_type, FALSE, <<>>, Absent)
  /\ UNCHANGED <<InstanceRefreshes, TargetHealthDescriptions, rolloutVars,
                 canaryVars, ta_call, promoteVars, mirrorVars, redriveVars>>

\* an instance refresh of the production fleet starts, when none is under way
InstanceRefreshStarts ==
  /\ Len(InstanceRefreshes) < MaxRefreshes
  /\ InstanceRefreshes # <<>> => InstanceRefreshes[1].Status \in EndedRefreshStatuses
  /\ InstanceRefreshes' = <<InstanceRefresh("Pending")>> \o InstanceRefreshes
  /\ UNCHANGED <<TargetHealthDescriptions, check_call, rolloutVars, canaryVars,
                 ta_call, promoteVars, mirrorVars, redriveVars>>

\* the latest instance refresh moves to another status
InstanceRefreshProgresses ==
  /\ InstanceRefreshes # <<>>
  /\ InstanceRefreshes[1].Status \notin EndedRefreshStatuses
  /\ \E status \in RefreshStatuses \ {"Pending", InstanceRefreshes[1].Status} :
       InstanceRefreshes' = <<InstanceRefresh(status)>> \o Tail(InstanceRefreshes)
  /\ UNCHANGED <<TargetHealthDescriptions, check_call, rolloutVars, canaryVars,
                 ta_call, promoteVars, mirrorVars, redriveVars>>

\* a canary instance registers with the canary target group
TargetRegisters ==
  /\ Len(TargetHealthDescriptions) < MaxTargets
  /\ TargetHealthDescriptions' =
       Append(TargetHealthDescriptions, TargetHealthDescription("initial"))
  /\ UNCHANGED <<InstanceRefreshes, check_call, rolloutVars, canaryVars, ta_call, promoteVars,
                 mirrorVars, redriveVars>>

\* the health state of a registered canary target changes
TargetHealthChanges ==
  /\ \E i \in 1 .. Len(TargetHealthDescriptions), state \in TargetHealthStates :
       /\ state # TargetHealthDescriptions[i].TargetHealth.State
       /\ TargetHealthDescriptions' =
            [TargetHealthDescriptions EXCEPT ![i] = TargetHealthDescription(state)]
  /\ canaryHealthy' = AnyHealthy(TargetHealthDescriptions')
  /\ UNCHANGED <<InstanceRefreshes, check_call, rolloutVars, canaryVars, ta_call, promoteVars,
                 mirrorVars, queues, rd_pc, rd_moves, rd_messages, rd_accepted,
                 deadLettered, redrives>>

(***************************************************************************)
(* manage_infrastructure.lambda_handler, PROMOTE_TO_PRODUCTION.            *)
(***************************************************************************)
\* image tags a promotion may carry
ImageTags == {"v1", "v2"}
\* a line of the boot script: what it starts with once stripped, and the rest
Line(prefix, rest) == [prefix |-> prefix, rest |-> rest]
\* f'export SPRING_APP_IMAGE="{image_tag}"'
ExportLine(image_tag) == Line("export SPRING_APP_IMAGE=", image_tag)
\* base64.b64encode(...).decode('utf-8') of a text, here its lines
B64Encode(lines) == [base64 |-> lines]
\* base64.b64decode(...).decode('utf-8')
B64Decode(data) == data.base64
\* LaunchTemplateData of a template version, UserData given or not
LaunchTemplateData(UserData) == [UserData |-> UserData]

\* line.strip().startswith('export SPRING_APP_IMAGE=') for some line
Replaced(lines) ==
  \E i \in 1 .. Len(lines) : lines[i].prefix = "export SPRING_APP_IMAGE="
\* modified_lines
ModifiedLines(lines, image_tag) ==
  [i \in 1 .. Len(lines) |->
     IF lines[i].prefix = "export SPRING_APP_IMAGE=" THEN ExportLine(image_tag)
     ELSE lines[i]]

NewUserDataAppendsLine(latest_version_data, image_tag) ==
  IF latest_version_data.UserData = Absent THEN Absent
  ELSE LET lines == B64Decode(latest_version_data.UserData[1])
       IN IF Replaced(lines) THEN Given(B64Encode(ModifiedLines(lines, image_tag)))
          ELSE Given(B64Encode(Append(lines, ExportLine(image_tag))))
\* new_base64_user_data computed from the latest version's data; Absent when
\* the handler raises ValueError (no UserData, or no line replaced)
NewUserData(latest_version_data, image_tag) ==
  IF latest_version_data.UserData = Absent THEN Absent
  ELSE LET lines == B64Decode(latest_version_data.UserData[1])
       IN IF ~Replaced(lines) THEN Absent
          ELSE Given(B64Encode(ModifiedLines(lines, image_tag)))

\* event.get('imageTag'): missing, empty, or a tag
ImageTagInputs == {Absent, Given("")} \cup {Given(t) : t \in ImageTags}

\* lambda_handler is invoked with action PROMOTE_TO_PRODUCTION
PromoteInvoke ==
  /\ pm_pc = "idle"
  /\ \E image_tag \in ImageTagInputs :
       /\ pm_image_tag' = image_tag
       /\ pm_pc' = IF image_tag \in {Absent, Given("")} THEN "raised"
                   ELSE "describe"
  /\ pmAtInvoke' = <<[versions |-> LaunchTemplateVersions,
                      default |-> DefaultVersion,
                      refreshes |-> InstanceRefreshes]>>
  /\ UNCHANGED <<LaunchTemplateVersions, DefaultVersion, pm_user_data,
                 pm_new_version, rolloutVars, probeVars, canaryVars, ta_call,
                 mirrorVars, redriveVars>>

\* describe_launch_template_versions of $Latest, then the UserData is patched
PromotePatchUserData ==
  /\ pm_pc = "describe"
  /\ \/ pm_pc' = "raised" /\ UNCHANGED pm_user_data
     \/ LET latest_version_data ==
               LaunchTemplateVersions[Len(LaunchTemplateVersions)]
            new_base64_user_data ==
               NewUserData(latest_version_data, pm_image_tag[1])
        IN IF new_base64_user_data = Absent
           THEN pm_pc' = "raised" /\ UNCHANGED pm_user_data
           ELSE pm_pc' = "create" /\ pm_user_data' = new_base64_user_data
  /\ UNCHANGED <<LaunchTemplateVersions, DefaultVersion, pm_image_tag,
                 pm_new_version, pmAtInvoke, rolloutVars, probeVars, canaryVars,
                 ta_call, mirrorVars, redriveVars>>

\* create_launch_template_version from $Latest with the patched UserData
PromoteCreateVersion ==
  /\ pm_pc = "create"
  /\ \/ pm_pc' = "raised" /\ UNCHANGED <<LaunchTemplateVersions, pm_new_version>>
     \/ /\ LaunchTemplateVersions' =
             Append(LaunchTemplateVersions, LaunchTemplateData(pm_user_data))
        /\ pm_new_version' = Given(Len(LaunchTemplateVersions'))
        /\ pm_pc' = "modify"
  /\ UNCHANGED <<DefaultVersion, pm_image_tag, pm_user_data, pmAtInvoke,
                 rolloutVars, probeVars, canaryVars, ta_call, mirrorVars,
                 redriveVars>>

\* modify_launch_template: the new version becomes the default
PromoteSetDefault ==
  /\ pm_pc = "modify"
  /\ \/ pm_pc' = "raised" /\ UNCHANGED DefaultVersion
     \/ DefaultVersion' = pm_new_version[1] /\ pm_pc' = "refresh"
  /\ UNCHANGED <<LaunchTemplateVersions, pm_image_tag, pm_user_data,
                 pm_new_version, pmAtInvoke, rolloutVars, probeVars, canaryVars,
                 ta_call, mirrorVars, redriveVars>>

\* start_instance_refresh on the production fleet; it raises while another
\* refresh is under way
PromoteStartRefresh ==
  /\ pm_pc = "refresh"
  /\ \/ pm_pc' = "raised" /\ UNCHANGED InstanceRefreshes
     \/ /\ InstanceRefreshes # <<>> =>
             InstanceRefreshes[1].Status \in EndedRefreshStatuses
        /\ InstanceRefreshes' = <<InstanceRefresh("Pending")>> \o InstanceRefreshes
        /\ pm_pc' = "returned"
  /\ UNCHANGED <<TargetHealthDescriptions, check_call, LaunchTemplateVersions,
                 DefaultVersion, pm_image_tag, pm_user_data, pm_new_version,
                 pmAtInvoke, rolloutVars, canaryVars, ta_call, mirrorVars,
                 redriveVars>>

(***************************************************************************)
(* Specification of the canary control plane: the workflow's steps and     *)
(* the rollback handler interleave on the listener and the canary fleet.   *)
(***************************************************************************)
InitRollback ==
  /\ rb_pc = "idle"
  /\ rb_executions = <<>>
  /\ rbAttempted = {}
  /\ rbFailed = {}
  /\ rbRunningAtInvoke = {}
  /\ rbStartedAtInvoke = {}
  /\ rbLastEnd = <<>>
  /\ rbReturns = 0

\* no rollout is planned
InitRolloutIdle ==
  /\ plan_call = <<>>
  /\ current_percentage = 0
  /\ current_hour = 0
  /\ step_call = <<>>

\* no status check was made; the fleets have no targets and no refreshes
InitProbeIdle ==
  /\ InstanceRefreshes = <<>>
  /\ TargetHealthDescriptions = <<>>
  /\ check_call = <<>>

\* boot scripts of the live template: with and without the image line
BootScripts ==
  {<<Line("", "#!/bin/bash"), ExportLine("PLACEHOLDER"), Line("", "docker run")>>,
   <<Line("", "#!/bin/bash"), Line("", "docker run")>>,
   <<ExportLine("v1"), ExportLine("v1")>>}
\* the promotion was not invoked; the live template has its first version
InitPromoteIdle ==
  /\ LaunchTemplateVersions =
       <<LaunchTemplateData(Given(B64Encode(
           <<Line("", "#!/bin/bash"), ExportLine("PLACEHOLDER")>>)))>>
  /\ DefaultVersion = 1
  /\ pm_pc = "idle"
  /\ pm_image_tag = <<>>
  /\ pm_user_data = <<>>
  /\ pm_new_version = <<>>
  /\ pmAtInvoke = <<>>

\* none of the workflow's step handlers was called
InitStepsIdle ==
  /\ ta_call = <<>>
  /\ InitRolloutIdle
  /\ InitPromoteIdle
  /\ InitProbeIdle

\* no call of send_prediction_messages is under way
InitMirrorIdle ==
  /\ messages = <<>>
  /\ mr_pc = "idle"
  /\ mr_weights = WeightsDefault
  /\ live_messages = <<>>
  /\ canary_messages = <<>>
  /\ mr_i = 0
  /\ queueLive = {}
  /\ queueCanary = {}
  /\ mrAttempted = {}
  /\ mrPartial = {}
  /\ mrRaised = {}
  /\ mrReadFailed = FALSE

\* the re-drive handler is not running and the queues are empty
InitRedriveIdle ==
  /\ queues = [q \in QueueUrls |-> {}]
  /\ canaryHealthy = FALSE
  /\ rd_pc = "idle"
  /\ rd_moves = <<>>
  /\ rd_messages = {}
  /\ rd_accepted = {}
  /\ deadLettered = {}
  /\ redrives = [m \in MsgIds |-> 0]

Init ==
  /\ listener = RollbackRule
  /\ canaryDesired = 0
  /\ execStatus = [e \in ExecIds |-> "NONE"]
  /\ InitRollback
  /\ InitStepsIdle
  /\ InitMirrorIdle
  /\ InitRedriveIdle

\* the alarm fires while rollout workflows run and invokes the rollback
AlarmFires ==
  /\ rbReturns < MaxAlarms
  /\ RollbackInvoke

Next ==
  \/ StartExecution
  \/ FinishExecution
  \/ AdjustTraffic
  \/ StartCanary
  \/ CleanupCanary
  \/ AlarmFires
  \/ RollbackRevertTraffic
  \/ RollbackScaleDown
  \/ RollbackListExecutions
  \/ RollbackStopExecution

Spec == Init /\ [][Next]_vars

(***************************************************************************)
(* Specification of the rollback handler alone, invoked from any prior     *)
(* traffic split, canary capacity and set of executions.                   *)
(***************************************************************************)
PriorWeights == {0, 30, 50, 70, 100}

PriorRules ==
  {NoForwardConfig}
  \cup {Forward(<<TargetGroup(LIVE_TG_ARN, l)>>) : l \in PriorWeights}
  \cup {Forward(<<TargetGroup(LIVE_TG_ARN, l), TargetGroup(CANARY_TG_ARN, c)>>) :
          l \in PriorWeights, c \in PriorWeights}

PriorExecutions ==
  {st \in [ExecIds -> {"NONE", "RUNNING", "SUCCEEDED"}] :
     \A d, e \in ExecIds : (d < e /\ st[e] # "NONE") => st[d] # "NONE"}

InitRollbackOnly ==
  /\ listener \in PriorRules
  /\ canaryDesired \in 0 .. MaxCapacity
  /\ execStatus \in PriorExecutions
  /\ InitRollback
  /\ InitStepsIdle
  /\ InitMirrorIdle
  /\ InitRedriveIdle

NextRollbackOnly ==
  \/ RollbackInvoke
  \/ RollbackRevertTraffic
  \/ RollbackScaleDown
  \/ RollbackListExecutions
  \/ RollbackStopExecution

SpecRollback == InitRollbackOnly /\ [][NextRollbackOnly]_vars

(***************************************************************************)
(* Specification of the traffic adjuster: a running workflow calls it with *)
(* any percentage on any prior rule, while the rollback handler may run.   *)
(***************************************************************************)
NextRouter ==
  \/ AdjustTraffic
  \/ NextRollbackOnly

SpecRouter == InitRollbackOnly /\ [][NextRouter]_vars

(***************************************************************************)
(* Specification of the traffic mirror: one call of                        *)
(* send_prediction_messages on any batch, against any forwarding rule.     *)
(***************************************************************************)
\* the batch of n messages, named by their ids
Batch(n) == [i \in 1 .. n |-> i]

BatchSizes == (0 .. MaxShuffleLen) \cup {SendBatchLimit, BigBatch}

MirrorArns == {LIVE_TG_ARN, CANARY_TG_ARN, OTHER_TG_ARN}
MirrorWeights == {0, 30, 50, 70, 100}
MirrorTargetGroups ==
  {TargetGroup(arn, w) : arn \in MirrorArns, w \in MirrorWeights}

\* the rules the mirror may read: no ForwardConfig, or up to two distinct
\* target groups
MirrorRules ==
  {NoForwardConfig, Forward(<<>>)}
  \cup {Forward(<<tg>>) : tg \in MirrorTargetGroups}
  \cup {Forward(tgs) :
          tgs \in {pair \in MirrorTargetGroups \X MirrorTargetGroups :
                     pair[1].TargetGroupArn # pair[2].TargetGroupArn}}

InitMirror ==
  /\ listener \in MirrorRules
  /\ canaryDesired = 0
  /\ execStatus = [e \in ExecIds |-> "NONE"]
  /\ InitRollback
  /\ InitStepsIdle
  /\ messages \in {Batch(n) : n \in BatchSizes}
  /\ mr_pc = "call"
  /\ mr_weights = WeightsDefault
  /\ live_messages = <<>>
  /\ canary_messages = <<>>
  /\ mr_i = 0
  /\ queueLive = {}
  /\ queueCanary = {}
  /\ mrAttempted = {}
  /\ mrPartial = {}
  /\ mrRaised = {}
  /\ mrReadFailed = FALSE
  /\ InitRedriveIdle

NextMirror ==
  \/ MirrorDistribute
  \/ MirrorSendSubBatch

SpecMirror == InitMirror /\ [][NextMirror]_vars

(***************************************************************************)
(* Specification of a mirror call racing the writers of the listener: one  *)
(* call of send_prediction_messages during a rollout, interleaved with the *)
(* traffic adjuster and the emergency rollback.                            *)
(***************************************************************************)
InitMirrorRace ==
  /\ listener \in {AdjustedRule(p) : p \in {50, 100}}
  /\ canaryDesired = 1
  /\ execStatus = [e \in ExecIds |-> IF e = 1 THEN "RUNNING" ELSE "NONE"]
  /\ InitRollback
  /\ InitStepsIdle
  /\ messages \in {Batch(n) : n \in 1 .. MaxRaceBatch}
  /\ mr_pc = "call"
  /\ mr_weights = WeightsDefault
  /\ live_messages = <<>>
  /\ canary_messages = <<>>
  /\ mr_i = 0
  /\ queueLive = {}
  /\ queueCanary = {}
  /\ mrAttempted = {}
  /\ mrPartial = {}
  /\ mrRaised = {}
  /\ mrReadFailed = FALSE
  /\ InitRedriveIdle

NextMirrorRace ==
  \/ MirrorDistribute
  \/ MirrorSendSubBatch
  \/ AdjustTraffic
  \/ AlarmFires
  \/ RollbackRevertTraffic
  \/ RollbackScaleDown
  \/ RollbackListExecutions
  \/ RollbackStopExecution

SpecMirrorRace == InitMirrorRace /\ [][NextMirrorRace]_vars

(***************************************************************************)
(* Specification of the re-drive: the handler runs on its timer while the  *)
(* consumers of the main queues process the messages or fail on them.      *)
(***************************************************************************)
\* each message starts in one queue
InitialQueues ==
  {[q \in QueueUrls |-> {m \in MsgIds : at[m] = q}] : at \in [MsgIds -> QueueUrls]}

InitRedrive ==
  /\ listener = RollbackRule
  /\ canaryDesired = 0
  /\ execStatus = [e \in ExecIds |-> "NONE"]
  /\ InitRollback
  /\ ta_call = <<>>
  /\ InitRolloutIdle
  /\ InitPromoteIdle
  /\ InstanceRefreshes = <<>>
  /\ check_call = <<>>
  /\ InitMirrorIdle
  /\ queues \in InitialQueues
  /\ canaryHealthy \in BOOLEAN
  /\ TargetHealthDescriptions = TargetsWhen(canaryHealthy)
  /\ rd_pc = "idle"
  /\ rd_moves = <<>>
  /\ rd_messages = {}
  /\ rd_accepted = {}
  /\ deadLettered = queues[LIVE_DLQ_URL] \cup queues[CANARY_DLQ_URL]
  /\ redrives = [m \in MsgIds |-> 0]

NextRedrive ==
  \/ RedriveInvoke
  \/ RedriveReceive
  \/ RedriveSend
  \/ RedriveDelete
  \/ ProcessingSucceeds
  \/ ProcessingFails
  \/ CanaryHealthChanges

SpecRedrive == InitRedrive /\ [][NextRedrive]_vars

(***************************************************************************)
(* Specification of the re-drive handler alone: its invocations on queues  *)
(* that no consumer touches, while the canary's health changes.            *)
(***************************************************************************)
NextRedriveHandler ==
  \/ RedriveInvoke
  \/ RedriveReceive
  \/ RedriveSend
  \/ RedriveDelete
  \/ CanaryHealthChanges

SpecRedriveHandler == InitRedrive /\ [][NextRedriveHandler]_vars

(***************************************************************************)
(* Properties of the rollback handler.                                     *)
(***************************************************************************)
RollbackOver == rb_pc \in {"returned", "raised"}

\* C1: the three rollback steps are attempted independently: when the
\* listener revert raises, the scale-down and the workflow stop are still
\* attempted; when the scale-down raises, the workflow stop is still attempted.
C1_StepsAttemptedIndependently ==
  RollbackOver =>
    /\ "revert" \in rbFailed => {"scale", "stop"} \subseteq rbAttempted
    /\ "scale" \in rbFailed => "stop" \in rbAttempted

\* C2: once one rollback invocation has returned and the workflow that was
\* under way has stopped (the rollback aborted every execution that was
\* running at the alarm, none was started since and none is running), the
\* listener is live 100 / canary 0 and the canary fleet's desired capacity is
\* 0, whatever the interleaving with the workflow's steps.
C2_RollbackSafeAtAnyTime ==
  ( /\ rb_pc = "returned"
    /\ rbReturns = 1
    /\ rbRunningAtInvoke # {}
    /\ \A e \in rbRunningAtInvoke : execStatus[e] = "ABORTED"
    /\ Started = rbStartedAtInvoke
    /\ Running = {} )
  => (listener = RollbackRule /\ canaryDesired = 0)

\* C3: with nothing else acting, a rollback invocation that completes leaves
\* the listener at live 100 / canary 0 and the canary capacity at 0 from any
\* prior split and capacity, and a second invocation in a row ends in the
\* state the first one left.
C3_RollbackIdempotent ==
  /\ [](rb_pc = "returned" =>
          /\ LiveWeight(listener) = 100
          /\ CanaryWeight(listener) = 0
          /\ canaryDesired = 0)
  /\ [][(rb_pc # "returned" /\ rb_pc' = "returned" /\ rbLastEnd # <<>>)
          => rbLastEnd' = rbLastEnd]_vars

\* a second rollback in a row has completed
C3_Witness == rb_pc = "returned" /\ rbReturns = 2 /\ rbLastEnd # <<>>

\* C4: when a rollback invocation has completed, no execution that was
\* RUNNING when it was invoked is still running.
C4_NoExecutionLeftRunning ==
  rb_pc = "returned" => \A e \in rbRunningAtInvoke : execStatus[e] # "RUNNING"

\* C5: in every reachable state the listener's live and canary weights sum
\* to 100, after any sequence of traffic_adjuster and rollback writes.
C5_WeightSumIs100 == LiveWeight(listener) + CanaryWeight(listener) = 100

\* the rollback has written the listener and a workflow step has then moved
\* half of the traffic to the canary
C5_Witness ==
  /\ "revert" \in rbAttempted \ rbFailed
  /\ CanaryWeight(listener) = 50
  /\ LiveWeight(listener) = 50

(***************************************************************************)
(* Properties of the traffic mirror.                                       *)
(***************************************************************************)
MirrorSplitDone == mr_pc \in {"send_live", "send_canary", "returned", "raised"}

\* C6: the two partitions together are a permutation of the input batch:
\* their lengths add up to the batch's and every input message is in exactly
\* one of them.
C6_PartitionsArePermutation ==
  (MirrorSplitDone /\ messages # <<>>) =>
    /\ Len(live_messages) + Len(canary_messages) = Len(messages)
    /\ Ids(live_messages) \cup Ids(canary_messages) = 1 .. Len(messages)
    /\ Ids(live_messages) \cap Ids(canary_messages) = {}
    /\ Cardinality(Ids(live_messages)) = Len(live_messages)
    /\ Cardinality(Ids(canary_messages)) = Len(canary_messages)

\* a shuffled batch of three split into one canary and two live messages
C6_Witness ==
  /\ mr_pc = "returned"
  /\ Len(messages) = 3
  /\ messages # Batch(3)
  /\ Len(canary_messages) = 1
  /\ Len(live_messages) = 2

MirrorActive ==
  /\ MirrorSplitDone
  /\ messages # <<>>
  /\ mr_weights.active
  /\ mr_weights.live + mr_weights.canary > 0

\* C7 as stated: with canary active and a positive weight sum, the canary
\* partition holds round-half-up(total * canary / (live + canary)) messages.
C7_CanaryCountHalfUp ==
  MirrorActive =>
    Len(canary_messages) =
      RoundHalfUp(Len(messages) * mr_weights.canary,
                  mr_weights.live + mr_weights.canary)

\* C7 amended: the canary partition holds the integer nearest to
\* total * canary / (live + canary), and on a tie the even one.
C7_CanaryCountHalfEven ==
  MirrorActive =>
    LET k == Len(canary_messages)
        t == mr_weights.live + mr_weights.canary
        d == 2 * Len(messages) * mr_weights.canary - 2 * k * t
    IN /\ -t <= d /\ d <= t
       /\ (d = t \/ d = -t) => k % 2 = 0
       /\ Len(live_messages) = Len(messages) - k

\* ten messages at live 70 / canary 30: three to canary, seven to live
C7_Witness ==
  /\ MirrorActive
  /\ Len(messages) = 10
  /\ mr_weights.live = 70
  /\ mr_weights.canary = 30
  /\ Len(canary_messages) = 3
  /\ Len(live_messages) = 7

\* the sub-batches send_prediction_messages has to send
SubBatchesOf(phase, msgs) ==
  {<<phase, i>> : i \in {j \in 0 .. Len(msgs) : j % SendBatchLimit = 0 /\ j < Len(msgs)}}
AllSubBatches ==
  SubBatchesOf("send_live", live_messages)
  \cup SubBatchesOf("send_canary", canary_messages)

\* the rule has no canary target, or gives it weight 0, or its weights sum to 0
CanaryInactive(rule) ==
  \/ ~rule.ForwardConfig
  \/ \A i \in 1 .. Len(rule.TargetGroups) :
       rule.TargetGroups[i].TargetGroupArn # CANARY_TG_ARN
  \/ CanaryWeight(rule) = 0
  \/ LiveWeight(rule) + CanaryWeight(rule) = 0

\* C8: when the rule has no canary target, or the canary target's weight is
\* 0, or the weights sum to 0, the whole batch goes to the live queue and
\* nothing is sent to the canary queue.
C8_InactiveAllToStable ==
  (CanaryInactive(listener) /\ messages # <<>>) =>
    /\ queueCanary = {}
    /\ \A sb \in mrAttempted : sb[1] = "send_live"
    /\ MirrorSplitDone =>
         (Ids(live_messages) = Ids(messages) /\ canary_messages = <<>>)
    /\ mr_pc = "returned" =>
         SubBatchesOf("send_live", messages) \subseteq mrAttempted

\* ten messages read against a rule whose canary target has weight 0, all of
\* them accepted by the live queue
C8_Witness ==
  /\ mr_pc = "returned"
  /\ Len(listener.TargetGroups) = 2
  /\ AnyTargetIsCanary(listener.TargetGroups)
  /\ CanaryWeight(listener) = 0
  /\ LiveWeight(listener) = 100
  /\ Len(messages) = SendBatchLimit
  /\ queueLive = Ids(messages)
  /\ queueCanary = {}

\* C9 as stated: whatever fails inside a sub-batch, every remaining sub-batch
\* of the live partition and of the canary partition is still sent.
C9_FailureNeverAborts ==
  mr_pc \in {"returned", "raised"} => AllSubBatches \subseteq mrAttempted

\* the sub-batch sent after sb, if there is one
SubBatchAfter(sb) ==
  LET msgs == IF sb[1] = "send_live" THEN live_messages ELSE canary_messages
  IN IF sb[2] + SendBatchLimit < Len(msgs)
     THEN {<<sb[1], sb[2] + SendBatchLimit>>}
     ELSE IF sb[1] = "send_live" /\ canary_messages # <<>>
          THEN {<<"send_canary", 0>>}
          ELSE {}

\* C9 amended: Failed entries reported in a sub-batch's response do not abort
\* the delivery: the next sub-batch is sent, and a call that is not cut by a
\* raised send_message_batch sends every sub-batch of both partitions.
C9_PartialFailureContinues ==
  /\ mr_pc = "returned" => AllSubBatches \subseteq mrAttempted
  /\ mr_pc = "raised" => mrRaised # {}
  /\ \A sb \in mrPartial :
       /\ sb \notin mrRaised
       /\ \A next \in SubBatchAfter(sb) :
            next \in mrAttempted \/ (mr_pc = next[1] /\ mr_i = next[2])

\* the first live sub-batch reported Failed entries and all five sub-batches
\* of both partitions were sent
C9_Witness ==
  /\ mr_pc = "returned"
  /\ <<"send_live", 0>> \in mrPartial
  /\ Cardinality(SubBatchesOf("send_live", live_messages)) = 2
  /\ Cardinality(SubBatchesOf("send_canary", canary_messages)) >= 1
  /\ AllSubBatches \subseteq mrAttempted

(***************************************************************************)
(* Properties of the re-drive.                                             *)
(***************************************************************************)
\* C10: a message whose processing keeps failing is re-published from the
\* dead-letter queue at most MaxRetries times.
C10_NeverRedrivenPastMaxRetries ==
  \A m \in MsgIds : redrives[m] <= MaxRetries

(***************************************************************************)
(* Specification of a rollout: one plan, then one step per hour.           *)
(***************************************************************************)
InitControlPlaneIdle ==
  /\ listener = RollbackRule
  /\ canaryDesired = 0
  /\ execStatus = [e \in ExecIds |-> "NONE"]
  /\ InitRollback
  /\ InitMirrorIdle
  /\ InitRedriveIdle

InitRollout ==
  /\ InitControlPlaneIdle
  /\ ta_call = <<>>
  /\ InitRolloutIdle
  /\ InitPromoteIdle
  /\ InitProbeIdle

NextRollout ==
  \/ PlanRollout
  \/ StepRollout

SpecRollout == InitRollout /\ [][NextRollout]_vars

(***************************************************************************)
(* Specification of calculate_next_percentage called with any event.       *)
(***************************************************************************)
NextStepper == StepPercentage

SpecStepper == InitRollout /\ [][NextStepper]_vars

(***************************************************************************)
(* Specification of the health probe: check_status is called while the     *)
(* production fleet's refreshes and the canary targets change.             *)
(***************************************************************************)
NextProbe ==
  \/ CheckStatus
  \/ InstanceRefreshStarts
  \/ InstanceRefreshProgresses
  \/ TargetRegisters
  \/ TargetHealthChanges

SpecProbe == InitRollout /\ [][NextProbe]_vars

(***************************************************************************)
(* Specification of a promotion: one PROMOTE_TO_PRODUCTION call on a live  *)
(* template of one or two versions, while instance refreshes progress.     *)
(***************************************************************************)
LaunchTemplateDatas ==
  {LaunchTemplateData(Absent)}
    \cup {LaunchTemplateData(Given(B64Encode(lines))) : lines \in BootScripts}

InitPromote ==
  /\ InitControlPlaneIdle
  /\ ta_call = <<>>
  /\ InitRolloutIdle
  /\ InstanceRefreshes \in
       {<<>>} \cup {<<InstanceRefresh(status)>> : status \in {"Successful", "InProgress"}}
  /\ TargetHealthDescriptions = <<>>
  /\ check_call = <<>>
  /\ LaunchTemplateVersions \in
       UNION {[1 .. n -> LaunchTemplateDatas] : n \in 1 .. MaxVersions}
  /\ DefaultVersion \in 1 .. Len(LaunchTemplateVersions)
  /\ pm_pc = "idle"
  /\ pm_image_tag = <<>>
  /\ pm_user_data = <<>>
  /\ pm_new_version = <<>>
  /\ pmAtInvoke = <<>>

NextPromote ==
  \/ PromoteInvoke
  \/ PromotePatchUserData
  \/ PromoteCreateVersion
  \/ PromoteSetDefault
  \/ PromoteStartRefresh
  \/ InstanceRefreshProgresses

SpecPromote == InitPromote /\ [][NextPromote]_vars

(***************************************************************************)
(* Properties of the re-drive handler's message handling.                  *)
(***************************************************************************)
\* the re-drive handler has just re-published a batch from a dead-letter queue
RedriveJustSent ==
  rd_pc = "delete" /\ Head(rd_moves).source \in DeadLetterQueues

\* the totalRetryCount a received message carries: receive_message asks for no
\* message attributes, so the count is the one of absent metadata
ReceivedRetryCount(msg) == 0

\* a send_message_batch entry carries totalRetryCount n as metadata
CarriesRetryCount(entry, n) ==
  /\ "MessageAttributes" \in DOMAIN entry
  /\ entry.MessageAttributes.totalRetryCount = n

\* C11: a message the re-drive re-publishes from a dead-letter queue with a
\* count below MaxRetries carries its count plus one as metadata.
C11_RepublishedWithCountPlusOne ==
  RedriveJustSent =>
    \A entry \in RedriveEntries(rd_messages) :
      (entry.Id \in rd_accepted /\ ReceivedRetryCount(entry.Id) < MaxRetries)
        => CarriesRetryCount(entry, ReceivedRetryCount(entry.Id) + 1)

\* C12: the re-drive deletes a message from a dead-letter queue only when the
\* destination queue accepted it in the preceding send.
C12_DeletedOnlyAfterPublished ==
  [][\A q \in DeadLetterQueues, m \in MsgIds :
       (rd_pc = "delete" /\ m \in queues[q] /\ m \notin queues'[q])
         => m \in rd_accepted]_vars

\* C13: one move_messages call reads at most one batch from its source queue:
\* after a batch was received, no further batch is received in the same call.
C13_AtMostOneBatchPerCall ==
  [][~(rd_pc = "receive" /\ rd_messages # {} /\ rd_pc' = "send")]_vars

(***************************************************************************)
(* Properties of the rollout plan and its progress.                        *)
(***************************************************************************)
\* a planner handler returned a plan
PlanReturned == plan_call # <<>> /\ plan_call[1].outcome # Absent
\* the duration the planner was asked for, with the handler's default
RequestedDuration ==
  GetOr(plan_call[1].event.total_duration_hours,
        IF plan_call[1].handler = "calculate_deployment_plan"
        THEN DEFAULT_DURATION_HOURS ELSE DEFAULT_DURATION)

\* C14: in a rollout the canary percentage stays within 0..100 and no step
\* decreases it.
C14_PercentMonotoneInRange ==
  /\ [](current_percentage \in 0 .. 100)
  /\ [][current_percentage' >= current_percentage]_vars

C14_Witness ==
  /\ PlanReturned
  /\ current_hour >= 2
  /\ step_call # <<>>
  /\ GetOr(step_call[1].event.current_percentage, 0) > 0
  /\ current_percentage > GetOr(step_call[1].event.current_percentage, 0)
  /\ current_percentage < 100

\* C15: for a requested duration d in 1..100 the percentage is 100 once d
\* steps were taken, and is 100 after every later step.
C15_CompletesWithinDuration ==
  (PlanReturned /\ RequestedDuration \in 1 .. 100
     /\ current_hour >= RequestedDuration)
    => current_percentage = 100

C15_Witness ==
  /\ PlanReturned
  /\ RequestedDuration = 3
  /\ current_hour = RequestedDuration + 1
  /\ current_percentage = 100

\* C16: for a duration d in 1..100 (the default when absent) the increment
\* of either planner handler is the least integer i with i * d >= 100, at
\* least 1; calculate_deployment_plan returns it with canary_percentage 0,
\* current_hour 0 and the event's deploymentId.
C16_PlanIncrementIsCeiling ==
  (PlanReturned /\ RequestedDuration \in 1 .. 100) =>
    LET d == RequestedDuration
        i == PlanIncrement(plan_call[1])
        plan == plan_call[1].outcome[1]
    IN /\ i >= 1
       /\ i * d >= 100
       /\ (i - 1) * d < 100
       /\ PlanStartPercentage(plan_call[1]) = 0
       /\ PlanStartHour(plan_call[1]) = 0
       /\ plan_call[1].handler = "calculate_deployment_plan" =>
            /\ plan.total_duration_hours = d
            /\ plan.deploymentId = plan_call[1].event.deploymentId

C16_Witness ==
  /\ PlanReturned
  /\ plan_call[1].handler = "calculate_deployment_plan"
  /\ plan_call[1].event.total_duration_hours = Given(6)
  /\ plan_call[1].event.deploymentId = Given("deployment-1")
  /\ plan_call[1].outcome[1].hourly_increment = 17
  /\ plan_call[1].outcome[1].deploymentId = Given("deployment-1")

\* C17: a planner handler called with a duration of 0 or less raises and
\* returns no plan.
C17_NonPositiveDurationRaises ==
  (plan_call # <<>> /\ RequestedDuration <= 0) => plan_call[1].outcome = Absent

\* C18: called with current_percentage >= 0 and increment >= 0 the stepper
\* returns the smaller of their sum and 100, and the call changes nothing of
\* the listener, the fleets, the executions or the queues.
C18_NextIsMinOfSumAnd100 ==
  /\ [](step_call # <<>> =>
         LET current == GetOr(step_call[1].event.current_percentage, 0)
             inc == GetOr(step_call[1].event.increment, 0)
         IN (current >= 0 /\ inc >= 0) =>
              step_call[1].next_percentage = Min(current + inc, 100))
  /\ [][step_call' # step_call =>
          UNCHANGED <<listener, canaryDesired, execStatus, queueLive,
                      queueCanary, queues>>]_vars

C18_Witness ==
  /\ step_call # <<>>
  /\ step_call[1].event.current_percentage = Given(95)
  /\ step_call[1].event.increment = Given(17)
  /\ step_call[1].next_percentage = 100

(***************************************************************************)
(* Properties of the traffic adjuster's calls.                             *)
(***************************************************************************)
\* C19: a call of the traffic adjuster with a percentage below 0 or above 100
\* raises and leaves the listener's rule as it was; a call that returns was
\* made with p in 0..100, wrote live = 100 - p and canary = p, and returns p.
C19_RouterValidatesBeforeWrite ==
  [][ta_call' # ta_call =>
       LET call == ta_call'[1]
           p == call.canary_percentage
       IN /\ (p < 0 \/ p > 100) =>
               (call.returned = Absent /\ listener' = listener)
          /\ call.returned = Absent => listener' = listener
          /\ call.returned # Absent =>
               /\ 0 <= p /\ p <= 100
               /\ call.returned = Given(p)
               /\ Len(listener'.TargetGroups) = 2
               /\ LiveWeight(listener') = 100 - p
               /\ CanaryWeight(listener') = p]_vars

C19_Witness ==
  /\ ta_call # <<>>
  /\ ta_call[1].canary_percentage = 101
  /\ ta_call[1].returned = Absent
  /\ listener = Forward(<<TargetGroup(LIVE_TG_ARN, 30),
                          TargetGroup(CANARY_TG_ARN, 70)>>)

(***************************************************************************)
(* Properties of the health probe.                                         *)
(***************************************************************************)
\* check_status was called for the instance refresh and the provider answered
RefreshChecked ==
  /\ check_call # <<>>
  /\ check_call[1].check_type = Given("INSTANCE_REFRESH")
  /\ check_call[1].described

\* C20: for the latest instance refresh, Successful gives SUCCEEDED; Failed,
\* Cancelling and Cancelled raise; any other status, and no refresh at all,
\* give IN_PROGRESS; SUCCEEDED is returned for Successful only.
C20_RefreshStatusMapping ==
  RefreshChecked =>
    LET response == check_call[1].response
        outcome == check_call[1].outcome
    IN /\ response = <<>> => outcome = Given("IN_PROGRESS")
       /\ response # <<>> =>
            LET latest == response[1].Status
            IN /\ latest = "Successful" => outcome = Given("SUCCEEDED")
               /\ latest \in {"Failed", "Cancelling", "Cancelled"}
                    => outcome = Absent
               /\ latest \notin {"Successful", "Failed", "Cancelling", "Cancelled"}
                    => outcome = Given("IN_PROGRESS")
       /\ outcome = Given("SUCCEEDED") =>
            (response # <<>> /\ response[1].Status = "Successful")

C20_Witness ==
  /\ RefreshChecked
  /\ Len(check_call[1].response) = 2
  /\ check_call[1].response[1].Status = "Cancelling"
  /\ check_call[1].response[2].Status = "Successful"
  /\ check_call[1].outcome = Absent

\* check_status was called in one of its two modes and the describe call of
\* that mode raised
DescribeRaised ==
  /\ check_call # <<>>
  /\ check_call[1].check_type \in {Given("CANARY_HEALTH"), Given("INSTANCE_REFRESH")}
  /\ ~check_call[1].described

\* C21: in either mode, when the provider query raised, check_status raises:
\* it returns neither IN_PROGRESS nor SUCCEEDED.
C21_ProbeFailsClosed ==
  DescribeRaised =>
    /\ check_call[1].outcome \notin {Given("IN_PROGRESS"), Given("SUCCEEDED")}
    /\ check_call[1].outcome = <<>>

C21_Witness ==
  /\ DescribeRaised
  /\ check_call[1].check_type = Given("INSTANCE_REFRESH")
  /\ InstanceRefreshes # <<>>
  /\ InstanceRefreshes[1].Status = "Successful"
  /\ check_call[1].outcome = <<>>

\* check_status was called for the canary's health and the provider answered
HealthChecked ==
  /\ check_call # <<>>
  /\ check_call[1].check_type = Given("CANARY_HEALTH")
  /\ check_call[1].described

\* C22: in CANARY_HEALTH mode the probe returns SUCCEEDED exactly when some
\* registered canary target is healthy, and IN_PROGRESS otherwise, also when
\* no target is registered.
C22_SucceededIffSomeTargetHealthy ==
  HealthChecked =>
    LET response == check_call[1].response
        healthy == {i \in 1 .. Len(response) :
                      response[i].TargetHealth.State = "healthy"}
    IN /\ check_call[1].outcome = Given("SUCCEEDED") <=> healthy # {}
       /\ healthy = {} => check_call[1].outcome = Given("IN_PROGRESS")
       /\ response = <<>> => check_call[1].outcome = Given("IN_PROGRESS")

C22_Witness ==
  /\ HealthChecked
  /\ Len(check_call[1].response) = 2
  /\ check_call[1].response[1].TargetHealth.State = "unhealthy"
  /\ check_call[1].response[2].TargetHealth.State = "healthy"
  /\ check_call[1].outcome = Given("SUCCEEDED")

(***************************************************************************)
(* Properties of the promotion to the production fleet.                    *)
(***************************************************************************)
\* the promotion was invoked when the latest version of the live template
\* had a boot script without any 'export SPRING_APP_IMAGE=' line
PlaceholderAbsentAtInvoke ==
  /\ pmAtInvoke # <<>>
  /\ LET versions == pmAtInvoke[1].versions
         latest == versions[Len(versions)]
     IN /\ latest.UserData # <<>>
        /\ \A i \in 1 .. Len(latest.UserData[1].base64) :
             latest.UserData[1].base64[i].prefix # "export SPRING_APP_IMAGE="

\* C23: when the placeholder line is absent the promotion raises without
\* publishing a version, changing the default version or starting an instance
\* refresh; and an instance refresh is started only once the patched version
\* is the default.
C23_PromoteNeedsPlaceholder ==
  /\ [](PlaceholderAbsentAtInvoke =>
          /\ pm_pc \in {"describe", "raised"}
          /\ LaunchTemplateVersions = pmAtInvoke[1].versions
          /\ DefaultVersion = pmAtInvoke[1].default
          /\ Len(InstanceRefreshes) = Len(pmAtInvoke[1].refreshes))
  /\ [][Len(InstanceRefreshes') > Len(InstanceRefreshes) =>
          /\ pm_new_version # <<>>
          /\ pm_new_version[1] = Len(LaunchTemplateVersions)
          /\ pm_new_version[1] > Len(pmAtInvoke[1].versions)
          /\ DefaultVersion = pm_new_version[1]
          /\ LET data == LaunchTemplateVersions[DefaultVersion].UserData[1].base64
             IN \E i \in 1 .. Len(data) :
                  data[i] = [prefix |-> "export SPRING_APP_IMAGE=",
                             rest |-> pm_image_tag[1]]]_vars

C23_Witness ==
  /\ PlaceholderAbsentAtInvoke
  /\ pm_image_tag = <<"v2">>
  /\ pm_pc = "raised"
  /\ Len(LaunchTemplateVersions) = 2
  /\ DefaultVersion = 1

(***************************************************************************)
(* Order of the rollback's steps.                                          *)
(***************************************************************************)
\* C24: the rollback issues its calls in the order listener to live 100 /
\* canary 0, canary capacity to 0, execution stopped: the capacity call is
\* issued only after the listener call returned, and the executions are
\* listed and stopped only after the capacity call returned.
C24_RollbackOrder ==
  /\ []("scale" \in rbAttempted => "revert" \in rbAttempted \ rbFailed)
  /\ []("stop" \in rbAttempted => "scale" \in rbAttempted \ rbFailed)
  /\ [][("scale" \in rbAttempted' /\ "scale" \notin rbAttempted) =>
          /\ "revert" \in rbAttempted \ rbFailed
          /\ listener = [ForwardConfig |-> TRUE,
                         TargetGroups |->
                           <<[TargetGroupArn |-> LIVE_TG_ARN, Weight |-> 100],
                             [TargetGroupArn |-> CANARY_TG_ARN, Weight |-> 0]>>]]_vars
  /\ [][execStatus' # execStatus =>
          /\ {"revert", "scale"} \subseteq rbAttempted \ rbFailed
          /\ canaryDesired = 0]_vars

C24_Witness ==
  /\ rb_pc = "returned"
  /\ rbAttempted = {"revert", "scale", "stop"}
  /\ rbFailed = {}
  /\ rb_executions # <<>>
  /\ rbLastEnd # <<>>
  /\ rbLastEnd[1].canaryDesired = 0

(***************************************************************************)
(* The mirror when the listener cannot be read.                            *)
(***************************************************************************)
\* C25: when reading or parsing the listener's rule raised, the whole batch is
\* the live partition, nothing is sent to the canary queue, and the call goes
\* on to its sends: with every send accepted, the live queue holds the batch.
C25_ReadErrorAllToStable ==
  (mrReadFailed /\ mr_pc # "call") =>
    /\ live_messages = messages
    /\ canary_messages = <<>>
    /\ queueCanary = {}
    /\ \A sb \in mrAttempted : sb[1] = "send_live"
    /\ mr_pc \in {"send_live", "send_canary", "returned"} \/ mrRaised # {}
    /\ mr_pc = "returned" =>
         /\ \A i \in 0 .. (Len(messages) - 1) \div 10 :
              <<"send_live", 10 * i>> \in mrAttempted
         /\ mrPartial = {} => queueLive = {messages[i] : i \in 1 .. Len(messages)}

\* more messages than one sub-batch holds, the read failed under a rule that
\* gives the canary 100, and the live queue accepted them all
C25_Witness ==
  /\ mrReadFailed
  /\ mr_pc = "returned"
  /\ Len(messages) > SendBatchLimit
  /\ Len(listener.TargetGroups) = 2
  /\ CanaryWeight(listener) = 100
  /\ LiveWeight(listener) = 0
  /\ mrPartial = {}
  /\ queueLive = Ids(messages)
  /\ queueCanary = {}

(***************************************************************************)
(* The stepper on negative inputs.                                         *)
(***************************************************************************)
\* C26: a call of the stepper with current_percentage < 0 or increment < 0
\* raises: it returns no next_percentage.
C26_NegativeInputsRejected ==
  step_call # <<>> =>
    LET current == GetOr(step_call[1].event.current_percentage, 0)
        inc == GetOr(step_call[1].event.increment, 0)
    IN (current < 0 \/ inc < 0) => "next_percentage" \notin DOMAIN step_call[1]

(***************************************************************************)
(* The mirror against concurrent writes of the listener.                   *)
(***************************************************************************)
\* C27: whenever the mirror passes a sub-batch to the canary queue, the
\* listener's canary weight is not 0 at that moment.
C27_NoSendOnStaleSplit ==
  [][(\E sb \in mrAttempted' \ mrAttempted : sb[1] = "send_canary")
       => CanaryWeight(listener) # 0]_vars

(***************************************************************************)
(* Routing of the re-drive handler.                                        *)
(***************************************************************************)
\* the moves that remain of an invocation that found the canary inactive
StandardRemainders ==
  {<< [source |-> LIVE_DLQ_URL, dest |-> LIVE_MAIN_QUEUE_URL],
      [source |-> CANARY_DLQ_URL, dest |-> LIVE_MAIN_QUEUE_URL],
      [source |-> CANARY_MAIN_QUEUE_URL, dest |-> LIVE_MAIN_QUEUE_URL] >>,
   << [source |-> CANARY_DLQ_URL, dest |-> LIVE_MAIN_QUEUE_URL],
      [source |-> CANARY_MAIN_QUEUE_URL, dest |-> LIVE_MAIN_QUEUE_URL] >>,
   << [source |-> CANARY_MAIN_QUEUE_URL, dest |-> LIVE_MAIN_QUEUE_URL] >>}
\* the moves that remain of an invocation that found the canary active
CanaryRemainders ==
  {<< [source |-> LIVE_DLQ_URL, dest |-> LIVE_MAIN_QUEUE_URL],
      [source |-> CANARY_DLQ_URL, dest |-> CANARY_MAIN_QUEUE_URL] >>,
   << [source |-> CANARY_DLQ_URL, dest |-> CANARY_MAIN_QUEUE_URL] >>}

\* C28: an invocation picks its mode once: the canary mode only when a canary
\* target is healthy, and its remaining moves stay those of that mode
\* whatever the canary's health becomes. A queue receives messages only from
\* the source of the current move: in standard mode only the live main queue,
\* from the live dead-letter queue, the canary dead-letter queue and the
\* canary main queue in turn; in canary mode the live main queue from the
\* live dead-letter queue and the canary main queue from the canary
\* dead-letter queue. Nothing moves from a live queue to a canary queue.
C28_RedriveRouting ==
  /\ [](rd_moves \in StandardRemainders \cup CanaryRemainders \cup {<<>>})
  /\ [][(rd_pc \in {"idle", "returned", "raised"} /\ rd_pc' = "receive") =>
          /\ rd_moves' \in {m \in StandardRemainders : Len(m) = 3}
                            \cup {m \in CanaryRemainders : Len(m) = 2}
          /\ Len(rd_moves') = 2 => canaryHealthy
          /\ ~canaryHealthy => Len(rd_moves') = 3]_vars
  /\ [][rd_moves' # rd_moves =>
          \/ rd_pc \in {"idle", "returned", "raised"}
          \/ rd_moves' = Tail(rd_moves) /\ queues[Head(rd_moves).source] = {}]_vars
  /\ [][\A q \in QueueUrls :
          ~(queues'[q] \subseteq queues[q]) =>
            /\ rd_moves # <<>>
            /\ q = Head(rd_moves).dest
            /\ queues'[q] \ queues[q] \subseteq queues[Head(rd_moves).source]
            /\ rd_moves \in StandardRemainders => q = LIVE_MAIN_QUEUE_URL
            /\ q = CANARY_MAIN_QUEUE_URL =>
                 Head(rd_moves).source = CANARY_DLQ_URL
            /\ ~(Head(rd_moves).source \in {LIVE_DLQ_URL, LIVE_MAIN_QUEUE_URL}
                   /\ q \in {CANARY_MAIN_QUEUE_URL, CANARY_DLQ_URL})]_vars

\* a canary-mode invocation returned after the canary turned unhealthy: the
\* canary main queue holds what the canary dead-letter queue held
C28_Witness ==
  /\ rd_pc = "returned"
  /\ ~canaryHealthy
  /\ queues[CANARY_MAIN_QUEUE_URL] = MsgIds
  /\ queues[CANARY_DLQ_URL] = {}
  /\ queues[LIVE_DLQ_URL] = {}
  /\ queues[LIVE_MAIN_QUEUE_URL] = {}

(***************************************************************************)
(* The mirror on a batch of one message, as the exponent prediction sender *)
(* passes it.                                                              *)
(***************************************************************************)
\* send_exponent_prediction_message_to_sqs: message_to_send, a list of one
\* message, passed to send_prediction_messages
ExponentMessageToSend == Batch(1)

\* C29: with the canary active, a batch of one message is the canary
\* partition exactly when the canary weight is greater than the live weight;
\* at equal weights and below, it is the live partition, and only the
\* partition that holds it is passed to its queue.
C29_SingleMessageMajority ==
  (MirrorActive /\ messages = ExponentMessageToSend) =>
    LET toCanary == mr_weights.canary > mr_weights.live
    IN /\ canary_messages = messages <=> toCanary
       /\ live_messages = messages <=> ~toCanary
       /\ Len(canary_messages) + Len(live_messages) = 1
       /\ queueCanary # {} => toCanary
       /\ queueLive # {} => ~toCanary
       /\ <<"send_canary", 0>> \in mrAttempted => toCanary
       /\ <<"send_live", 0>> \in mrAttempted => ~toCanary
       /\ mr_pc = "returned" =>
            (<<"send_canary", 0>> \in mrAttempted <=> toCanary)

\* one message at live 50 / canary 50, accepted by the live queue
C29_Witness ==
  /\ MirrorActive
  /\ messages = ExponentMessageToSend
  /\ mr_weights.live = 50
  /\ mr_weights.canary = 50
  /\ mr_pc = "returned"
  /\ queueLive = {messages[1]}
  /\ queueCanary = {}

(***************************************************************************)
(* The end of the instance refresh polling loop.                           *)
(***************************************************************************)
\* C30: polled for an instance refresh that has ended, whatever its final
\* status, the probe returns SUCCEEDED or raises: it does not return
\* IN_PROGRESS, on which the workflow would poll again and get the same answer.
C30_EndedRefreshEndsPolling ==
  (RefreshChecked /\ check_call[1].response # <<>>
     /\ check_call[1].response[1].Status \in
          {"Successful", "Failed", "Cancelled", "RollbackFailed",
           "RollbackSuccessful"})
    => check_call[1].outcome # Given("IN_PROGRESS")


====
